---------------------------- MODULE Spec2Model ----------------------------
(***************************************************************************)
(* logtools: severity-filtered log sinks (console, coloured console, file) *)
(* with line wrapping and indentation, a global sink list with fan-out     *)
(* entry points serialised by one mutex, and a thread-local indent         *)
(* counter.  Strings are sequences of one-character strings.               *)
(***************************************************************************)
EXTENDS Integers, Sequences, FiniteSets, TLC

VARIABLES
    g_log_sinks,          \* vector<unique_ptr<LogSink>>: sequence of sink records
    io,                   \* per sink: the calls it made on its medium / the formatter
    g_logToStdoutAlways,  \* bool
    g_trace_filters,      \* set<string>
    g_log_mutex,          \* holder of the mutex, or NoThread
    g_logIndentLevel,     \* __thread unsigned int, one per thread
    alive,                \* per thread: LogIndenter objects it created that still live
    foreign,              \* some LogIndenter was destroyed on a thread that had none
    pc,                   \* per thread: position in the entry point it runs
    frame,                \* per thread: locals of the entry point it runs
    aborted,              \* abort() was called
    ncalls,               \* calls (of entry points, of constructors) started so far
    recv,                 \* every sink Log call the entry points made, in order
    lastLog,              \* the most recent sink Log call and the sink state before it
    wrapIn,               \* WrapString under test: its inputs
    wrapOut               \* WrapString under test: its result

vars == <<g_log_sinks, io, g_logToStdoutAlways, g_trace_filters, g_log_mutex,
          g_logIndentLevel, alive, foreign, pc, frame, aborted, ncalls, recv,
          lastLog, wrapIn, wrapOut>>

---------------------------------------------------------------------------
\* Bounds of the model
MaxLen == 4          \* longest string given to WrapString alone
MaxMsgLen == 2       \* longest message given to a sink's Log directly
MaxWidth == 7        \* widest terminal the ioctl reports
MaxDepth == 2        \* deepest LogIndenter nesting
MaxCalls == 2        \* entry-point calls in one run
MaxIndenters == 5    \* LogIndenter objects alive at once, all threads together
MaxWords == 3        \* words in a line given to PreprocessLine alone

---------------------------------------------------------------------------
\* Program constants

\* enum class Severity
FATAL == 1
ERROR == 2
WARNING == 3
NOTICE == 4
VERBOSE == 5
DEBUG == 6
Severities == FATAL..DEBUG

\* LogSink::LogSink initialisers
IndentSize == 4
DefaultTermWidth == 120

\* unsigned int: 32 bits, held as two 16-bit halves (value = hi * Half + lo)
Half == 65536
UInt(n) == [hi |-> (n \div Half) % Half, lo |-> n % Half]
UIntVal(x) == x.hi * Half + x.lo
\* x + 1, x - 1 and k * x modulo 2^32, for k < 2^15
UIntInc(x) ==
    IF x.lo = Half - 1 THEN [hi |-> (x.hi + 1) % Half, lo |-> 0]
    ELSE [x EXCEPT !.lo = @ + 1]
UIntDec(x) ==
    IF x.lo = 0 THEN [hi |-> (x.hi + Half - 1) % Half, lo |-> Half - 1]
    ELSE [x EXCEPT !.lo = @ - 1]
UIntMul(k, x) ==
    [hi |-> (k * x.hi + ((k * x.lo) \div Half)) % Half, lo |-> (k * x.lo) % Half]
UIntMax == [hi |-> Half - 1, lo |-> Half - 1]

NL == "\n"
SP == " "
Threads == {"T1", "T2"}
NoThread == "none"

---------------------------------------------------------------------------
\* std::string helpers

\* subject.substr(pos) with 1-based pos
SubstrFrom(subject, pos) == SubSeq(subject, pos, Len(subject))

\* subject.find(search): 1-based position of the first occurrence, 0 for npos
Find(subject, search) ==
    LET hits == {p \in 1..(Len(subject) - Len(search) + 1) :
                    SubSeq(subject, p, p + Len(search) - 1) = search}
    IN IF hits = {} THEN 0 ELSE CHOOSE p \in hits : \A q \in hits : p <= q

\* std::string(n, ' ')
Spaces(n) == [i \in 1..n |-> SP]

\* the last character of a string is '\n'
EndsWithNewline(s) == Len(s) > 0 /\ s[Len(s)] = NL

\* string::npos; positions below are 0-based as in std::string, and
\* npos + 1 = 0 as in size_t arithmetic
NPOS == -1

\* s.find(search, pos): first occurrence starting at or after pos
StrFind(s, search, pos) ==
    LET hits == {p \in 0..(Len(s) - Len(search)) :
                    pos # NPOS /\ p >= pos /\ SubSeq(s, p + 1, p + Len(search)) = search}
    IN IF hits = {} THEN NPOS ELSE CHOOSE p \in hits : \A q \in hits : p <= q

\* s.rfind(search, pos): last occurrence starting at or before pos
StrRFind(s, search, pos) ==
    LET hits == {p \in 0..(Len(s) - Len(search)) :
                    (pos = NPOS \/ p <= pos) /\ SubSeq(s, p + 1, p + Len(search)) = search}
    IN IF hits = {} THEN NPOS ELSE CHOOSE p \in hits : \A q \in hits : p >= q

\* s.substr(pos, n): n characters from pos, or as many as there are
\* (a count that wrapped below zero is larger than any string)
Substr(s, pos, n) ==
    IF n < 0 \/ pos + n > Len(s) THEN SubSeq(s, pos + 1, Len(s))
    ELSE SubSeq(s, pos + 1, pos + n)

---------------------------------------------------------------------------
\* ColoredSTDLogSink

\* one byte 0x1b
ESC == "ESC"
red == <<ESC, "[", "3", "1", ";", "1", "m">>
yellow == <<ESC, "[", "3", "3", ";", "1", "m">>
clear == <<ESC, "[", "0", "m">>

red_strings == <<
    <<"I", "N", "T", "E", "R", "N", "A", "L", SP, "E", "R", "R", "O", "R">>,
    <<"E", "R", "R", "O", "R">>,
    <<"E", "r", "r", "o", "r">>,
    <<"e", "r", "r", "o", "r">> >>

yellow_strings == <<
    <<"W", "A", "R", "N", "I", "N", "G">>,
    <<"W", "a", "r", "n", "i", "n", "g">>,
    <<"w", "a", "r", "n", "i", "n", "g">> >>

\* ColoredSTDLogSink::replace
replace(search, before, after, subject) ==
    LET Replaced(s) ==
            LET pos == Find(s, search)
            IN IF pos = 0
               THEN s
               ELSE LET end == pos + Len(search) - 1
                    IN before \o SubSeq(s, 1, end) \o after \o SubstrFrom(s, end + 1)
    IN \* the subject is worked out once, then searched and cut
       CHOOSE r \in {Replaced(s) : s \in {subject}} : TRUE

\* for(auto s : list) line = replace(s + ":", colour, clear, line), from entry i on
RECURSIVE ReplaceAll(_, _, _, _)
ReplaceAll(list, i, colour, line) ==
    IF i > Len(list)
    THEN line
    ELSE ReplaceAll(list, i + 1, colour, replace(Append(list[i], ":"), colour, clear, line))

\* ColoredSTDLogSink::PreprocessLine
ColoredPreprocessLine(line) ==
    ReplaceAll(yellow_strings, 1, yellow, ReplaceAll(red_strings, 1, red, line))

\* virtual PreprocessLine: nothing in the base class, colours in ColoredSTDLogSink
PreprocessLine(kind, line) ==
    IF kind = "ColoredSTDLogSink" THEN ColoredPreprocessLine(line) ELSE line

---------------------------------------------------------------------------
\* LogSink

SinkKinds == {"STDLogSink", "ColoredSTDLogSink", "FILELogSink"}

\* LogSink::LogSink: indent 4, width 120, last message ended a line
LogSink(kind, min_severity) ==
    [kind |-> kind,
     m_indentSize |-> IndentSize,
     m_termWidth |-> DefaultTermWidth,
     m_lastMessageWasNewline |-> TRUE,
     m_min_severity |-> min_severity]

\* STDLogSink::STDLogSink: the width is whatever the terminal ioctl reports
\* (ws_col; not a terminal: whatever the uninitialised struct holds)
STDLogSink(kind, min_severity, ws_col) ==
    [LogSink(kind, min_severity) EXCEPT !.m_termWidth = ws_col]

\* FILELogSink::FILELogSink
FILELogSink(min_severity) == LogSink("FILELogSink", min_severity)

\* LogSink::GetSeverity
GetSeverity(sink) == sink.m_min_severity

\* LogSink::GetIndentString: unsigned product, that many spaces
IndentLength(sink, level) == UIntMul(sink.m_indentSize, level)
GetIndentString(sink, level) == Spaces(UIntVal(IndentLength(sink, level)))

\* a variant: the width test lets one character too many onto the line
LineContinues_OffByOne(tmp, indent, termWidth, ch) ==
    (Len(tmp) + Len(indent) <= termWidth) /\ (ch # NL)

\* WrapString's test "line neither overly long nor done"
LineContinues(tmp, indent, termWidth, ch) ==
    (Len(tmp) + Len(indent) < termWidth) /\ (ch # NL)

\* WrapString's test "indent the line being ended"
\* a variant: the first line is indented only when the output is in mid-line
IndentsLine_Reversed(firstLine, lastMessageWasNewline) ==
    (firstLine /\ ~lastMessageWasNewline) \/ ~firstLine

IndentsLine(firstLine, lastMessageWasNewline) ==
    (firstLine /\ lastMessageWasNewline) \/ ~firstLine

\* WrapString's tail: whatever is left in tmp after the loop
AppendRemainder(ret, tmp) ==
    IF tmp # <<>> THEN ret \o tmp ELSE ret

\* the for loop of WrapString from character i on, tmp being empty there:
\* tmp takes the characters i..j up to the first j where the line ends; the
\* line is then added to ret, or, if no line ends, left in tmp for the tail
RECURSIVE WrapLoop(_, _, _, _, _, _)
WrapLoop(sink, indent, str, i, ret, firstLine) ==
    LET ends == {j \in i..Len(str) :
                    ~LineContinues(SubSeq(str, i, j), indent, sink.m_termWidth, str[j])}
    IN IF ends = {}
       THEN AppendRemainder(ret, SubSeq(str, i, Len(str)))
       ELSE LET j == CHOOSE e \in ends : \A f \in ends : e <= f
                tmp == SubSeq(str, i, j)
                r1 == IF IndentsLine(firstLine, sink.m_lastMessageWasNewline)
                      THEN ret \o indent ELSE ret
                r2 == r1 \o PreprocessLine(sink.kind, tmp)
                r3 == IF str[j] # NL THEN Append(r2, NL) ELSE r2
            IN WrapLoop(sink, indent, str, j + 1, r3, FALSE)

\* LogSink::WrapString, called on a thread whose indent level is `level`
WrapString(sink, level, str) ==
    WrapLoop(sink, GetIndentString(sink, level), str, 1, <<>>, TRUE)

---------------------------------------------------------------------------
\* The formatter.  A format is a string whose element "%d" is a conversion
\* taking one int argument; a va_list is the argument list and a cursor.

\* a list some earlier reader has already walked to its end
va_start_Consumed(args) == [args |-> args, pos |-> Len(args) + 1]

va_start(args) == [args |-> args, pos |-> 1]

DigitChars == <<"0", "1", "2", "3", "4", "5", "6", "7", "8", "9">>

\* decimal rendering of a non-negative int
RECURSIVE Decimal(_)
Decimal(n) ==
    IF n < 10 THEN <<DigitChars[n + 1]>>
    ELSE Append(Decimal(n \div 10), DigitChars[(n % 10) + 1])

\* vsnprintf from format character i on: a conversion consumes the argument
\* under the cursor; past the end of the list the argument read is garbage
RECURSIVE vsnprintf(_, _, _, _)
vsnprintf(format, i, va, out) ==
    IF i > Len(format)
    THEN [text |-> out, va |-> va]
    ELSE IF format[i] = "%d"
         THEN LET arg == IF va.pos <= Len(va.args)
                         THEN Decimal(va.args[va.pos]) ELSE <<"?">>
              IN vsnprintf(format, i + 1, [va EXCEPT !.pos = @ + 1], out \o arg)
         ELSE vsnprintf(format, i + 1, va, Append(out, format[i]))

\* LogSink::vstrprintf: measure on a copy of the list, then format for real
vstrprintf(format, va) ==
    LET va_tmp == va
        len == Len(vsnprintf(format, 1, va_tmp, <<>>).text)
    IN IF len < 0
       THEN [text |-> <<>>, va |-> va]
       ELSE vsnprintf(format, 1, va, <<>>)

---------------------------------------------------------------------------
\* Sink Log.  Each operator returns the sink after the call, what the call
\* did on the sink's medium appended to sio, and the va_list after the call.

Ev(op, stream, text) == [op |-> op, stream |-> stream, text |-> text]

\* STDLogSink::Flush
Flush == <<Ev("fflush", "stdout", <<>>), Ev("fflush", "stderr", <<>>)>>

\* a variant: an empty output clears the flag too
SawNewline_EmptyClears(sink, wrapped) ==
    [sink EXCEPT !.m_lastMessageWasNewline =
                    Len(wrapped) > 0 /\ wrapped[Len(wrapped)] = NL]

\* a variant: the flag is set on a newline but never cleared
SawNewline_NeverCleared(sink, wrapped) ==
    IF Len(wrapped) > 0 /\ wrapped[Len(wrapped)] = NL
    THEN [sink EXCEPT !.m_lastMessageWasNewline = TRUE]
    ELSE sink

\* "See if we printed a \n"
SawNewline(sink, wrapped) ==
    IF Len(wrapped) > 0 /\ wrapped[Len(wrapped)] = NL
    THEN [sink EXCEPT !.m_lastMessageWasNewline = TRUE]
    ELSE IF wrapped # <<>>
         THEN [sink EXCEPT !.m_lastMessageWasNewline = FALSE]
         ELSE sink

\* a variant: the severity order read the other way round
Skips_Reversed(sink, severity) == severity < sink.m_min_severity

\* "Skip messages which aren't important enough"
Skips(sink, severity) == severity > sink.m_min_severity

\* flushed around the write, and after it
\* a variant: warnings are not flushed
Urgent_ErrorOnly(severity) == severity <= ERROR

Urgent(severity) == severity <= WARNING

\* STDLogSink::Log(Severity, const string&)
STDLogSinkLogString(sink, sio, severity, msg, level, toStdout) ==
    IF Skips(sink, severity)
    THEN [sink |-> sink, io |-> sio]
    ELSE LET io1 == IF Urgent(severity) THEN sio \o Flush ELSE sio
             wrapped == WrapString(sink, level, msg)
             stream == IF Urgent(severity) /\ ~toStdout THEN "stderr" ELSE "stdout"
             io2 == Append(io1, Ev("fputs", stream, wrapped))
             io3 == IF Urgent(severity) THEN io2 \o Flush ELSE io2
         IN [sink |-> SawNewline(sink, wrapped), io |-> io3]

\* STDLogSink::Log(Severity, const char*, va_list)
STDLogSinkLogVa(sink, sio, severity, format, va, level, toStdout) ==
    IF Skips(sink, severity)
    THEN [sink |-> sink, io |-> sio, va |-> va]
    ELSE LET io1 == IF Urgent(severity) THEN sio \o Flush ELSE sio
             f == vstrprintf(format, va)
             io2 == Append(io1, Ev("vstrprintf", "", f.text))
             wrapped == WrapString(sink, level, f.text)
             stream == IF Urgent(severity) /\ ~toStdout THEN "stderr" ELSE "stdout"
             io3 == Append(io2, Ev("fputs", stream, wrapped))
             io4 == IF Urgent(severity) THEN io3 \o Flush ELSE io3
         IN [sink |-> SawNewline(sink, wrapped), io |-> io4, va |-> f.va]

\* FILELogSink::Log(Severity, const string&)
FILELogSinkLogString(sink, sio, severity, msg, level) ==
    IF Skips(sink, severity)
    THEN [sink |-> sink, io |-> sio]
    ELSE LET wrapped == WrapString(sink, level, msg)
             io1 == Append(sio, Ev("fputs", "m_file", wrapped))
             io2 == IF Urgent(severity)
                    THEN Append(io1, Ev("fflush", "m_file", <<>>)) ELSE io1
         IN [sink |-> SawNewline(sink, wrapped), io |-> io2]

\* FILELogSink::Log(Severity, const char*, va_list)
FILELogSinkLogVa(sink, sio, severity, format, va, level) ==
    IF Skips(sink, severity)
    THEN [sink |-> sink, io |-> sio, va |-> va]
    ELSE LET f == vstrprintf(format, va)
             io1 == Append(sio, Ev("vstrprintf", "", f.text))
             wrapped == WrapString(sink, level, f.text)
             io2 == Append(io1, Ev("fputs", "m_file", wrapped))
             io3 == IF Urgent(severity)
                    THEN Append(io2, Ev("fflush", "m_file", <<>>)) ELSE io2
         IN [sink |-> SawNewline(sink, wrapped), io |-> io3, va |-> f.va]

\* virtual LogSink::Log(Severity, const string&)
LogString(sink, sio, severity, msg, level, toStdout) ==
    IF sink.kind = "FILELogSink"
    THEN FILELogSinkLogString(sink, sio, severity, msg, level)
    ELSE STDLogSinkLogString(sink, sio, severity, msg, level, toStdout)

\* virtual LogSink::Log(Severity, const char*, va_list)
LogVa(sink, sio, severity, format, va, level, toStdout) ==
    IF sink.kind = "FILELogSink"
    THEN FILELogSinkLogVa(sink, sio, severity, format, va, level)
    ELSE STDLogSinkLogVa(sink, sio, severity, format, va, level, toStdout)

\* every byte the sink wrote, in order
RECURSIVE WrittenFrom(_, _)
WrittenFrom(sio, i) ==
    IF i > Len(sio) THEN <<>>
    ELSE (IF sio[i].op = "fputs" THEN sio[i].text ELSE <<>>) \o WrittenFrom(sio, i + 1)
Written(sio) == WrittenFrom(sio, 1)

---------------------------------------------------------------------------
\* Inputs and the state of a process that has not logged yet

Alphabet == {"a", NL}

\* every string over the alphabet of at most n characters
Strings(n) == UNION {[1..k -> Alphabet] : k \in 0..n}

\* the sinks an application can construct: console sinks take their width
\* from the terminal, a file sink keeps the default
FreshSinks(min_severity) ==
    {STDLogSink(k, min_severity, w) :
        k \in {"STDLogSink", "ColoredSTDLogSink"}, w \in 0..MaxWidth}
    \cup {FILELogSink(min_severity)}

NoFrame == [entry |-> "none"]
NoLog == [n |-> 0, sink |-> 0]
NoWrap == [done |-> FALSE]

Quiet ==
    /\ g_log_sinks = <<>>
    /\ io = <<>>
    /\ g_logToStdoutAlways = FALSE
    /\ g_trace_filters = {}
    /\ g_log_mutex = NoThread
    /\ g_logIndentLevel = [t \in Threads |-> UInt(0)]
    /\ alive = [t \in Threads |-> 0]
    /\ foreign = FALSE
    /\ pc = [t \in Threads |-> "idle"]
    /\ frame = [t \in Threads |-> NoFrame]
    /\ aborted = FALSE
    /\ ncalls = 0
    /\ recv = <<>>
    /\ lastLog = NoLog
    /\ wrapIn = NoWrap
    /\ wrapOut = NoWrap

---------------------------------------------------------------------------
\* WrapSpec: one WrapString call on a sink that is fresh or has just
\* written one unterminated character, at any indent level.

\* the sink after logging msg at Notice from indent level 0
After(sink, msg) == LogString(sink, <<>>, NOTICE, msg, UInt(0), FALSE).sink

WrapSinks == {After(f, p) : f \in FreshSinks(VERBOSE), p \in {<<>>, <<"a">>}}

WrapInit ==
    /\ g_log_sinks = <<>>
    /\ io = <<>>
    /\ g_logToStdoutAlways = FALSE
    /\ g_trace_filters = {}
    /\ g_log_mutex = NoThread
    /\ g_logIndentLevel = [t \in Threads |-> UInt(0)]
    /\ alive = [t \in Threads |-> 0]
    /\ foreign = FALSE
    /\ pc = [t \in Threads |-> "idle"]
    /\ frame = [t \in Threads |-> NoFrame]
    /\ aborted = FALSE
    /\ ncalls = 0
    /\ recv = <<>>
    /\ lastLog = NoLog
    /\ wrapIn \in [sink : WrapSinks, level : {UInt(n) : n \in 0..MaxDepth},
                 str : Strings(MaxLen)]
    /\ wrapOut = NoWrap

CallWrapString ==
    /\ ~wrapOut.done
    /\ wrapOut' = [done |-> TRUE,
                   ret |-> WrapString(wrapIn.sink, wrapIn.level, wrapIn.str)]
    /\ UNCHANGED <<g_log_sinks, io, g_logToStdoutAlways, g_trace_filters,
                   g_log_mutex, g_logIndentLevel, alive, foreign, pc, frame,
                   aborted, ncalls, recv, lastLog, wrapIn>>

WrapNext == CallWrapString

WrapSpec == WrapInit /\ [][WrapNext]_vars

---------------------------------------------------------------------------
\* Reading a wrapped string

IsPrefix(p, s) == Len(p) <= Len(s) /\ SubSeq(s, 1, Len(p)) = p

HasNewline(s) == \E i \in 1..Len(s) : s[i] = NL

\* the lines of s, each with the newline that ends it; an unterminated
\* rest is the last line
RECURSIVE SplitLines(_, _, _, _)
SplitLines(s, i, cur, acc) ==
    IF i > Len(s)
    THEN (IF cur # <<>> THEN Append(acc, cur) ELSE acc)
    ELSE IF s[i] = NL
         THEN SplitLines(s, i + 1, <<>>, Append(acc, Append(cur, NL)))
         ELSE SplitLines(s, i + 1, Append(cur, s[i]), acc)
Lines(s) == SplitLines(s, 1, <<>>, <<>>)

\* the characters of a line, its newline not counted
LineLength(line) == IF EndsWithNewline(line) THEN Len(line) - 1 ELSE Len(line)

WrapIndent == GetIndentString(wrapIn.sink, wrapIn.level)
WrapWidth == wrapIn.sink.m_termWidth

\* C4 as claimed: a short input without newline (here: a non-empty one) comes
\* back as indent + input when the previous output ended a line, and
\* unchanged when it did not
C4_ShortLineGetsIndent ==
    (wrapOut.done /\ wrapIn.str # <<>> /\ ~HasNewline(wrapIn.str)
        /\ Len(wrapIn.str) < WrapWidth - Len(WrapIndent))
    => wrapOut.ret = (IF wrapIn.sink.m_lastMessageWasNewline
                      THEN WrapIndent \o wrapIn.str ELSE wrapIn.str)

\* C5 as claimed: every line of the result after the first begins with the
\* indent string, the unterminated last line included
C5_LaterLinesIndented ==
    wrapOut.done =>
        \A i \in 2..Len(Lines(wrapOut.ret)) : IsPrefix(WrapIndent, Lines(wrapOut.ret)[i])


\* the input has no newline and is longer than maxWidth - indentLength
C6_LongLine ==
    /\ wrapOut.done
    /\ ~HasNewline(wrapIn.str)
    /\ Len(wrapIn.str) > WrapWidth - Len(WrapIndent)

\* C6 as claimed: every segment between forced breaks has at most maxWidth
\* characters counting its indent, for every indent depth and width
C6_SegmentsWithinWidth ==
    C6_LongLine =>
        \A i \in 1..Len(Lines(wrapOut.ret)) :
            LineLength(Lines(wrapOut.ret)[i]) <= WrapWidth

\* C6 amended: every segment has at most maxWidth characters counting its
\* indent when the indent is shorter than the width; when it is not (a width
\* of 0 included) a segment has at most indentLength + 1 characters
C6_SegmentsWithinWidthOrOneChar ==
    C6_LongLine =>
        \A i \in 1..Len(Lines(wrapOut.ret)) :
            LineLength(Lines(wrapOut.ret)[i]) <=
                (IF Len(WrapIndent) < WrapWidth THEN WrapWidth ELSE Len(WrapIndent) + 1)

\* a long indented line was broken into several segments, one filling the width
C6_Witness ==
    /\ C6_LongLine
    /\ 0 < Len(WrapIndent) /\ Len(WrapIndent) < WrapWidth
    /\ Len(Lines(wrapOut.ret)) >= 2
    /\ \E i \in 1..Len(Lines(wrapOut.ret)) : LineLength(Lines(wrapOut.ret)[i]) = WrapWidth


---------------------------------------------------------------------------
\* LogIndenter

\* a variant: the counter is one global, not one per thread
LogIndenterCtor_NotThreadLocal(t) ==
    /\ g_logIndentLevel' = [u \in Threads |-> UIntInc(g_logIndentLevel[u])]
    /\ alive' = [alive EXCEPT ![t] = @ + 1]
    /\ UNCHANGED foreign

\* LogIndenter::LogIndenter on thread t
LogIndenterCtor(t) ==
    /\ g_logIndentLevel' = [g_logIndentLevel EXCEPT ![t] = UIntInc(@)]
    /\ alive' = [alive EXCEPT ![t] = @ + 1]
    /\ UNCHANGED foreign

\* LogIndenter::~LogIndenter run by thread t on an object thread o created
LogIndenterDtor(t, o) ==
    /\ alive[o] > 0
    /\ g_logIndentLevel' = [g_logIndentLevel EXCEPT ![t] = UIntDec(@)]
    /\ alive' = [alive EXCEPT ![o] = @ - 1]
    /\ foreign' = (foreign \/ t # o)

TotalAlive == alive["T1"] + alive["T2"]

---------------------------------------------------------------------------
\* LogSpec: one sink, fresh or left in mid-line by an earlier message, and
\* one direct call of either Log overload from a thread at any indent level.

\* formats with a conversion, and their argument lists
Formats == {<<"a", "%d">>, <<"%d", NL>>}
ArgLists == {<<7>>}

\* the sink list and its output: a fresh sink, or one that wrote "a" at its
\* own threshold from indent level 0
OneSinkStates ==
    LET fresh == UNION {FreshSinks(m) : m \in Severities}
    IN {[sink |-> f, io |-> <<>>] : f \in fresh}
       \cup {LogString(f, <<>>, f.m_min_severity, <<"a">>, UInt(0), FALSE) : f \in fresh}

LogInit ==
    /\ \E st \in OneSinkStates :
          /\ g_log_sinks = <<st.sink>>
          /\ io = <<st.io>>
    /\ g_logToStdoutAlways \in BOOLEAN
    /\ g_trace_filters = {}
    /\ g_log_mutex = NoThread
    /\ g_logIndentLevel = [t \in Threads |-> UInt(0)]
    /\ alive = [t \in Threads |-> 0]
    /\ foreign = FALSE
    /\ pc = [t \in Threads |-> "idle"]
    /\ frame = [t \in Threads |-> NoFrame]
    /\ aborted = FALSE
    /\ ncalls = 0
    /\ recv = <<>>
    /\ lastLog = NoLog
    /\ wrapIn = NoWrap
    /\ wrapOut = NoWrap

\* what the latest sink Log call was given
LogRecord(i, severity, overload, text, level) ==
    [n |-> lastLog.n + 1, sink |-> i, severity |-> severity,
     overload |-> overload, text |-> text, level |-> level]

\* thread t calls g_log_sinks[1]->Log(severity, msg)
DirectLogString(t, severity, msg) ==
    /\ lastLog.n = 0
    /\ LET r == LogString(g_log_sinks[1], io[1], severity, msg,
                          g_logIndentLevel[t], g_logToStdoutAlways)
       IN /\ g_log_sinks' = [g_log_sinks EXCEPT ![1] = r.sink]
          /\ io' = [io EXCEPT ![1] = r.io]
    /\ lastLog' = LogRecord(1, severity, "string", msg, g_logIndentLevel[t])
    /\ UNCHANGED <<g_logToStdoutAlways, g_trace_filters, g_log_mutex,
                   g_logIndentLevel, alive, foreign, pc, frame, aborted,
                   ncalls, recv, wrapIn, wrapOut>>

\* thread t calls g_log_sinks[1]->Log(severity, format, va) on a list just started
DirectLogVa(t, severity, format, args) ==
    /\ lastLog.n = 0
    /\ LET r == LogVa(g_log_sinks[1], io[1], severity, format, va_start(args),
                      g_logIndentLevel[t], g_logToStdoutAlways)
       IN /\ g_log_sinks' = [g_log_sinks EXCEPT ![1] = r.sink]
          /\ io' = [io EXCEPT ![1] = r.io]
    /\ lastLog' = LogRecord(1, severity, "va",
                            vstrprintf(format, va_start(args)).text, g_logIndentLevel[t])
    /\ UNCHANGED <<g_logToStdoutAlways, g_trace_filters, g_log_mutex,
                   g_logIndentLevel, alive, foreign, pc, frame, aborted,
                   ncalls, recv, wrapIn, wrapOut>>

\* a thread enters or leaves an indented scope before the call
LogEnterScope(t) ==
    /\ lastLog.n = 0
    /\ TotalAlive < MaxDepth
    /\ LogIndenterCtor(t)
    /\ UNCHANGED <<g_log_sinks, io, g_logToStdoutAlways, g_trace_filters,
                   g_log_mutex, pc, frame, aborted, ncalls, recv, lastLog,
                   wrapIn, wrapOut>>

LogLeaveScope(t) ==
    /\ lastLog.n = 0
    /\ LogIndenterDtor(t, t)
    /\ UNCHANGED <<g_log_sinks, io, g_logToStdoutAlways, g_trace_filters,
                   g_log_mutex, pc, frame, aborted, ncalls, recv, lastLog,
                   wrapIn, wrapOut>>

\* one thread does the logging here
LogNext ==
    \/ \E sev \in Severities, msg \in Strings(MaxMsgLen) :
          DirectLogString("T1", sev, msg)
    \/ \E sev \in Severities, f \in Formats, a \in ArgLists :
          DirectLogVa("T1", sev, f, a)
    \/ LogEnterScope("T1")
    \/ LogLeaveScope("T1")

LogSpec == LogInit /\ [][LogNext]_vars

\* the latest Log call was made, and on which sink
Logged == lastLog.n > 0
LoggedSink == g_log_sinks[lastLog.sink]

\* C1: a Log call (either overload, any sink class) whose severity is greater
\* than the sink's m_min_severity changes nothing: no formatter call, no
\* write, no flush, m_lastMessageWasNewline as before
C1_FilteredLogHasNoEffect ==
    [][(lastLog'.n # lastLog.n
          /\ lastLog'.severity > g_log_sinks[lastLog'.sink].m_min_severity)
       => (g_log_sinks' = g_log_sinks /\ io' = io)]_vars

\* a message with a conversion, less urgent than the threshold, was given to
\* a sink that had left a line unterminated
C1_Witness ==
    /\ Logged
    /\ lastLog.severity > LoggedSink.m_min_severity
    /\ lastLog.overload = "va"
    /\ ~LoggedSink.m_lastMessageWasNewline
    /\ Written(io[lastLog.sink]) = <<"a">>

\* the sink emitted the latest message, and it was not empty
C7_Emitted ==
    /\ Logged
    /\ lastLog.severity <= LoggedSink.m_min_severity
    /\ lastLog.text # <<>>

\* C7 as claimed: after a sink emits a non-empty message the flag is true if
\* the message's last character is a newline and false if it is not
C7_FlagFollowsMessage ==
    C7_Emitted => (LoggedSink.m_lastMessageWasNewline = EndsWithNewline(lastLog.text))

\* characters of s after its last newline
RECURSIVE TailLength(_)
TailLength(s) ==
    IF s = <<>> \/ s[Len(s)] = NL THEN 0
    ELSE 1 + TailLength(SubSeq(s, 1, Len(s) - 1))

\* input characters WrapString puts on one line before it forces a break
PerLine(sink, level) ==
    LET room == sink.m_termWidth - Len(GetIndentString(sink, level))
    IN IF room > 1 THEN room ELSE 1

\* C7 amended: the flag is true if the message's last character is a newline;
\* if it is not, the flag is false unless that character fills its line to
\* the width, where the sink writes a forced newline last and the flag is true
C7_FlagFollowsOutput ==
    C7_Emitted =>
        (LoggedSink.m_lastMessageWasNewline =
            (EndsWithNewline(lastLog.text)
             \/ TailLength(lastLog.text) % PerLine(LoggedSink, lastLog.level) = 0))

\* a message without a final newline was emitted at an indent, its last
\* character did not fill the line, and the flag went from true to false
C7_Witness ==
    /\ C7_Emitted
    /\ ~EndsWithNewline(lastLog.text)
    /\ UIntVal(lastLog.level) > 0
    /\ LoggedSink.m_termWidth = MaxWidth
    /\ ~LoggedSink.m_lastMessageWasNewline


---------------------------------------------------------------------------
\* IndentSpec: threads create LogIndenter objects and destroy them, on the
\* creating thread (a scope) or on another one (an object handed over).

IndentInit == Quiet

IndentEnterScope(t) ==
    /\ ncalls < MaxIndenters
    /\ ncalls' = ncalls + 1
    /\ LogIndenterCtor(t)
    /\ UNCHANGED <<g_log_sinks, io, g_logToStdoutAlways, g_trace_filters,
                   g_log_mutex, pc, frame, aborted, recv, lastLog, wrapIn, wrapOut>>

IndentLeaveScope(t, o) ==
    /\ LogIndenterDtor(t, o)
    /\ UNCHANGED <<g_log_sinks, io, g_logToStdoutAlways, g_trace_filters,
                   g_log_mutex, pc, frame, aborted, ncalls, recv, lastLog,
                   wrapIn, wrapOut>>

IndentNext ==
    \/ \E t \in Threads : IndentEnterScope(t)
    \/ \E t \in Threads, o \in Threads : IndentLeaveScope(t, o)

IndentSpec == IndentInit /\ [][IndentNext]_vars

\* C9: while every LogIndenter is destroyed on the thread that created it,
\* each thread's indent level is the number of LogIndenter objects it has
\* alive, so creating or destroying one leaves the other threads' levels alone
C9_LevelIsLiveIndenters ==
    ~foreign => \A t \in Threads : g_logIndentLevel[t] = UInt(alive[t])

\* three nested scopes and one exit on T1, one scope open on T2... within the
\* bound: T1 entered three scopes and left one
C9_Witness ==
    /\ ~foreign
    /\ ncalls = 3
    /\ alive = [t \in Threads |-> IF t = "T1" THEN 2 ELSE 0]
    /\ g_logIndentLevel["T1"] = UInt(2)

\* C10 as claimed: the counter never underflows: on every thread it is at
\* most the number of LogIndenter objects created so far, and the indent
\* string's length is IndentSize times it
C10_LevelNeverUnderflows ==
    \A t \in Threads :
        /\ g_logIndentLevel[t].hi = 0
        /\ g_logIndentLevel[t].lo <= ncalls
        /\ IndentLength(LogSink("FILELogSink", VERBOSE), g_logIndentLevel[t])
               = UInt(IndentSize * g_logIndentLevel[t].lo)


---------------------------------------------------------------------------
\* Spec: threads call the entry points of log.cpp on a sink list set up at
\* start.  Every statement that calls a sink is one step of its thread.

FatalPrefix == <<"I", "N", "T", "E", "R", "N", "A", "L", SP, "E", "R", "R", "O", "R", ":", SP>>
ErrorPrefix == <<"E", "R", "R", "O", "R", ":", SP>>
WarningPrefix == <<"W", "a", "r", "n", "i", "n", "g", ":", SP>>
BugReportLine ==
    <<SP, SP, SP, SP, "T", "h", "i", "s", SP, "i", "n", "d", "i", "c", "a", "t",
      "e", "s", SP, "a", SP, "b", "u", "g", SP, "i", "n", SP, "t", "h", "e", SP,
      "p", "r", "o", "g", "r", "a", "m", ",", SP, "p", "l", "e", "a", "s", "e",
      SP, "f", "i", "l", "e", SP, "a", SP, "r", "e", "p", "o", "r", "t", SP,
      "v", "i", "a", SP, "G", "i", "t", "h", "u", "b", NL>>

TraceR == <<"R">>

\* ParseLoggerArguments, --trace: the filter stored for an argument
TraceArgument(sfilter) == IF sfilter = <<":", ":">> THEN <<>> ELSE sfilter

\* what an application sets up before its threads log: the sink list, the
\* trace filters, and how deep in LogIndenter scopes thread T1 is
Setups ==
    {[sinks |-> <<>>, filters |-> {}, depth |-> 0],
     [sinks |-> <<STDLogSink("STDLogSink", NOTICE, DefaultTermWidth)>>,
      filters |-> {TraceArgument(TraceR)}, depth |-> 0],
     [sinks |-> <<STDLogSink("ColoredSTDLogSink", DEBUG, DefaultTermWidth), FILELogSink(WARNING)>>,
      filters |-> {TraceArgument(TraceR)}, depth |-> 0],
     [sinks |-> <<FILELogSink(DEBUG), STDLogSink("STDLogSink", ERROR, DefaultTermWidth)>>,
      filters |-> {TraceArgument(<<":", ":">>)}, depth |-> 1]}

Init ==
    /\ \E s \in Setups :
          /\ g_log_sinks = s.sinks
          /\ g_trace_filters = s.filters
          /\ g_logIndentLevel = [t \in Threads |-> IF t = "T1" THEN UInt(s.depth) ELSE UInt(0)]
          /\ alive = [t \in Threads |-> IF t = "T1" THEN s.depth ELSE 0]
    /\ io = [i \in 1..Len(g_log_sinks) |-> <<>>]
    /\ g_logToStdoutAlways = FALSE
    /\ g_log_mutex = NoThread
    /\ foreign = FALSE
    /\ pc = [t \in Threads |-> "idle"]
    /\ frame = [t \in Threads |-> NoFrame]
    /\ aborted = FALSE
    /\ ncalls = 0
    /\ recv = <<>>
    /\ lastLog = NoLog
    /\ wrapIn = NoWrap
    /\ wrapOut = NoWrap

\* a lock that does not wait for its holder
Lock_NoWait(t) == g_log_mutex' = t

\* lock_guard<mutex> lock(g_log_mutex): the caller waits until the mutex is free
Lock(t) ==
    /\ g_log_mutex = NoThread
    /\ g_log_mutex' = t

\* the lock_guard's destructor
Unlock(t) == g_log_mutex' = NoThread

\* an entry point is called on thread t: it takes the mutex and sets up its locals
Begin(t, entry, severity, format, sformat, label, args, first) ==
    /\ ~aborted
    /\ pc[t] = "idle"
    /\ ncalls < MaxCalls
    /\ Lock(t)
    /\ ncalls' = ncalls + 1
    /\ frame' = [frame EXCEPT ![t] =
                    [entry |-> entry, call |-> ncalls + 1, severity |-> severity,
                     format |-> format, sformat |-> sformat, label |-> label,
                     args |-> args, idx |-> 1]]
    /\ pc' = [pc EXCEPT ![t] = first]
    /\ UNCHANGED <<g_log_sinks, io, g_logToStdoutAlways, g_trace_filters,
                   g_logIndentLevel, alive, foreign, aborted, recv, lastLog,
                   wrapIn, wrapOut>>

\* what an entry point hands to a sink's Log
Received(t, i, severity, overload, format, va) ==
    [thread |-> t, entry |-> frame[t].entry, call |-> frame[t].call, sink |-> i,
     severity |-> severity, overload |-> overload, format |-> format, va |-> va]

NoVa == [args |-> <<>>, pos |-> 0]

\* va_start(va, format); sink->Log(severity, format, va); va_end(va);
\* on the sink the loop of thread t is at
SinkLogVa(t, severity, format) ==
    LET i == frame[t].idx
        va == va_start(frame[t].args)
        r == LogVa(g_log_sinks[i], io[i], severity, format, va,
                   g_logIndentLevel[t], g_logToStdoutAlways)
    IN /\ g_log_sinks' = [g_log_sinks EXCEPT ![i] = r.sink]
       /\ io' = [io EXCEPT ![i] = r.io]
       /\ recv' = Append(recv, Received(t, i, severity, "va", format, va))

\* sink->Log(severity, msg) on the sink the loop of thread t is at
SinkLogString(t, severity, msg) ==
    LET i == frame[t].idx
        r == LogString(g_log_sinks[i], io[i], severity, msg,
                       g_logIndentLevel[t], g_logToStdoutAlways)
    IN /\ g_log_sinks' = [g_log_sinks EXCEPT ![i] = r.sink]
       /\ io' = [io EXCEPT ![i] = r.io]
       /\ recv' = Append(recv, Received(t, i, severity, "string", msg, NoVa))

LogFatal(t, format, args) ==
    Begin(t, "LogFatal", FATAL, format, FatalPrefix \o format, <<>>, args, "fatal")

LogError(t, format, args) ==
    Begin(t, "LogError", ERROR, format, ErrorPrefix \o format, <<>>, args, "loop")

LogWarning(t, format, args) ==
    Begin(t, "LogWarning", WARNING, format, WarningPrefix \o format, <<>>, args, "loop")

LogNotice(t, format, args) ==
    Begin(t, "LogNotice", NOTICE, format, format, <<>>, args, "loop")

LogVerbose(t, format, args) ==
    Begin(t, "LogVerbose", VERBOSE, format, format, <<>>, args, "loop")

LogDebug(t, format, args) ==
    Begin(t, "LogDebug", DEBUG, format, format, <<>>, args, "loop")

Log(t, severity, format, args) ==
    Begin(t, "Log", severity, format, format, <<>>, args, "loop")

\* one iteration of for(auto &sink : g_log_sinks) in LogError .. LogDebug and Log
FanOut(t) ==
    /\ ~aborted
    /\ pc[t] = "loop"
    /\ frame[t].idx <= Len(g_log_sinks)
    /\ SinkLogVa(t, frame[t].severity, frame[t].sformat)
    /\ frame' = [frame EXCEPT ![t].idx = @ + 1]
    /\ UNCHANGED <<g_logToStdoutAlways, g_trace_filters, g_log_mutex,
                   g_logIndentLevel, alive, foreign, pc, aborted, ncalls,
                   lastLog, wrapIn, wrapOut>>

\* the loop is over: the entry point returns and its lock_guard unlocks
Return(t) ==
    /\ ~aborted
    /\ pc[t] \in {"loop", "label"}
    /\ frame[t].idx > Len(g_log_sinks)
    /\ Unlock(t)
    /\ pc' = [pc EXCEPT ![t] = "idle"]
    /\ frame' = [frame EXCEPT ![t] = NoFrame]
    /\ UNCHANGED <<g_log_sinks, io, g_logToStdoutAlways, g_trace_filters,
                   g_logIndentLevel, alive, foreign, aborted, ncalls, recv,
                   lastLog, wrapIn, wrapOut>>

\* LogFatal's loop body, first statement: the message
FatalMessage(t) ==
    /\ ~aborted
    /\ pc[t] = "fatal"
    /\ frame[t].idx <= Len(g_log_sinks)
    /\ SinkLogVa(t, FATAL, frame[t].sformat)
    /\ pc' = [pc EXCEPT ![t] = "fatal2"]
    /\ UNCHANGED <<g_logToStdoutAlways, g_trace_filters, g_log_mutex,
                   g_logIndentLevel, alive, foreign, frame, aborted, ncalls,
                   lastLog, wrapIn, wrapOut>>

\* a loop body that goes on to the next sink without the bug-report line
FatalBugReport_Missing(t) ==
    /\ ~aborted
    /\ pc[t] = "fatal2"
    /\ frame' = [frame EXCEPT ![t].idx = @ + 1]
    /\ pc' = [pc EXCEPT ![t] = "fatal"]
    /\ UNCHANGED <<g_log_sinks, io, recv, g_logToStdoutAlways, g_trace_filters,
                   g_log_mutex, g_logIndentLevel, alive, foreign, aborted, ncalls,
                   lastLog, wrapIn, wrapOut>>

\* LogFatal's loop body, second statement: the bug-report line
FatalBugReport(t) ==
    /\ ~aborted
    /\ pc[t] = "fatal2"
    /\ SinkLogString(t, FATAL, BugReportLine)
    /\ frame' = [frame EXCEPT ![t].idx = @ + 1]
    /\ pc' = [pc EXCEPT ![t] = "fatal"]
    /\ UNCHANGED <<g_logToStdoutAlways, g_trace_filters, g_log_mutex,
                   g_logIndentLevel, alive, foreign, aborted, ncalls,
                   lastLog, wrapIn, wrapOut>>

\* abort(): the process ends, the mutex still held
Abort(t) ==
    /\ ~aborted
    /\ pc[t] = "fatal"
    /\ frame[t].idx > Len(g_log_sinks)
    /\ aborted' = TRUE
    /\ pc' = [pc EXCEPT ![t] = "aborted"]
    /\ UNCHANGED <<g_log_sinks, io, g_logToStdoutAlways, g_trace_filters,
                   g_log_mutex, g_logIndentLevel, alive, foreign, frame,
                   ncalls, recv, lastLog, wrapIn, wrapOut>>

\* LogDebugTrace: "Early out (for performance) if we don't have any debug-level sinks"
has_debug_sinks == \E i \in 1..Len(g_log_sinks) : GetSeverity(g_log_sinks[i]) >= DEBUG

\* LogDebugTrace: class and function name out of the compiler's function string
ParseFunction(sfunc) ==
    LET poff == StrRFind(sfunc, <<"(">>, NPOS)
        colpos == StrRFind(sfunc, <<":", ":">>, poff)
    IN IF colpos # NPOS /\ poff # NPOS
       THEN LET namelen == poff - colpos - 2
                name == Substr(sfunc, colpos + 2, namelen)
                coff == StrFind(name, <<SP>>, 0)
            IN IF coff = NPOS
               THEN LET clen == colpos - coff - 1
                        cls == Substr(sfunc, coff + 1, clen)
                        coff2 == StrRFind(cls, <<SP>>, NPOS)
                    IN [cls |-> Substr(cls, coff2 + 1, NPOS), name |-> name]
               ELSE [cls |-> <<>>, name |-> Substr(name, coff + 1, NPOS)]
       ELSE LET soff == StrFind(sfunc, <<SP>>, 0)
                poff2 == StrFind(sfunc, <<"(">>, soff)
            IN IF soff # NPOS /\ poff2 # NPOS
               THEN [cls |-> <<>>, name |-> Substr(sfunc, soff + 1, poff2 - soff - 1)]
               ELSE [cls |-> <<>>, name |-> sfunc]

\* "Format final function name"
FinalName(p) == p.cls \o <<":", ":">> \o p.name

\* a variant: the lookup by the final name, whether or not there is a class
TraceEnabled_ByName(p) == FinalName(p) \in g_trace_filters

\* "Check if class or function name is in the 'to log' list"
TraceEnabled(p) ==
    IF p.cls = <<>> THEN FinalName(p) \in g_trace_filters
    ELSE p.cls \in g_trace_filters

LogDebugTrace(t, function, format, args) ==
    Begin(t, "LogDebugTrace", DEBUG, format, format, function, args, "trace")

\* no sink at Debug: return
TraceEarlyOut(t) ==
    /\ ~aborted
    /\ pc[t] = "trace"
    /\ ~has_debug_sinks
    /\ Unlock(t)
    /\ pc' = [pc EXCEPT ![t] = "idle"]
    /\ frame' = [frame EXCEPT ![t] = NoFrame]
    /\ UNCHANGED <<g_log_sinks, io, g_logToStdoutAlways, g_trace_filters,
                   g_logIndentLevel, alive, foreign, aborted, ncalls, recv,
                   lastLog, wrapIn, wrapOut>>

\* the function string is parsed; the class or function is not in
\* g_trace_filters: return
TraceFiltered(t, function) ==
    /\ ~aborted
    /\ pc[t] = "trace"
    /\ has_debug_sinks
    /\ frame[t].label = function
    /\ ~TraceEnabled(ParseFunction(function))
    /\ Unlock(t)
    /\ pc' = [pc EXCEPT ![t] = "idle"]
    /\ frame' = [frame EXCEPT ![t] = NoFrame]
    /\ UNCHANGED <<g_log_sinks, io, g_logToStdoutAlways, g_trace_filters,
                   g_logIndentLevel, alive, foreign, aborted, ncalls, recv,
                   lastLog, wrapIn, wrapOut>>

\* the function string is parsed; it is in g_trace_filters: sfunc becomes the
\* final name, go on to the loop
TracePassed(t, function) ==
    /\ ~aborted
    /\ pc[t] = "trace"
    /\ has_debug_sinks
    /\ frame[t].label = function
    /\ TraceEnabled(ParseFunction(function))
    /\ frame' = [frame EXCEPT ![t].label = FinalName(ParseFunction(function))]
    /\ pc' = [pc EXCEPT ![t] = "label"]
    /\ UNCHANGED <<g_log_sinks, io, g_logToStdoutAlways, g_trace_filters,
                   g_log_mutex, g_logIndentLevel, alive, foreign,
                   aborted, ncalls, recv, lastLog, wrapIn, wrapOut>>

\* LogDebugTrace's loop body, first statement: "[Class::function] " and the indent
TraceLabel(t) ==
    /\ ~aborted
    /\ pc[t] = "label"
    /\ frame[t].idx <= Len(g_log_sinks)
    /\ SinkLogString(t, DEBUG,
            <<"[">> \o frame[t].label \o <<"]", SP>>
                \o GetIndentString(g_log_sinks[frame[t].idx], g_logIndentLevel[t]))
    /\ pc' = [pc EXCEPT ![t] = "body"]
    /\ UNCHANGED <<g_logToStdoutAlways, g_trace_filters, g_log_mutex,
                   g_logIndentLevel, alive, foreign, frame, aborted, ncalls,
                   lastLog, wrapIn, wrapOut>>

\* LogDebugTrace's loop body, second statement: the message
TraceBody(t) ==
    /\ ~aborted
    /\ pc[t] = "body"
    /\ SinkLogVa(t, DEBUG, frame[t].sformat)
    /\ frame' = [frame EXCEPT ![t].idx = @ + 1]
    /\ pc' = [pc EXCEPT ![t] = "label"]
    /\ UNCHANGED <<g_logToStdoutAlways, g_trace_filters, g_log_mutex,
                   g_logIndentLevel, alive, foreign, aborted, ncalls,
                   lastLog, wrapIn, wrapOut>>

\* the function strings the compiler supplies
Functions ==
    {<<"v", "o", "i", "d", SP, "R", ":", ":", "f", "(", ")">>,
     <<"i", "n", "t", SP, "g", "(", ")">>}

\* the formats the callers use, and their arguments
CallFormats == {<<"a">>, <<"%d", NL>>}
CallArgs == {<<7>>}

Next ==
    \/ \E t \in Threads, f \in CallFormats, a \in CallArgs : LogFatal(t, f, a)
    \/ \E t \in Threads, f \in CallFormats, a \in CallArgs : LogError(t, f, a)
    \/ \E t \in Threads, f \in CallFormats, a \in CallArgs : LogWarning(t, f, a)
    \/ \E t \in Threads, f \in CallFormats, a \in CallArgs : LogNotice(t, f, a)
    \/ \E t \in Threads, f \in CallFormats, a \in CallArgs : LogVerbose(t, f, a)
    \/ \E t \in Threads, f \in CallFormats, a \in CallArgs : LogDebug(t, f, a)
    \/ \E t \in Threads, sev \in Severities, f \in CallFormats, a \in CallArgs :
          Log(t, sev, f, a)
    \/ \E t \in Threads, fn \in Functions, f \in CallFormats, a \in CallArgs :
          LogDebugTrace(t, fn, f, a)
    \/ \E t \in Threads : TraceEarlyOut(t)
    \/ \E t \in Threads, fn \in Functions : TraceFiltered(t, fn)
    \/ \E t \in Threads, fn \in Functions : TracePassed(t, fn)
    \/ \E t \in Threads : TraceLabel(t)
    \/ \E t \in Threads : TraceBody(t)
    \/ \E t \in Threads : FanOut(t)
    \/ \E t \in Threads : Return(t)
    \/ \E t \in Threads : FatalMessage(t)
    \/ \E t \in Threads : FatalBugReport(t)
    \/ \E t \in Threads : Abort(t)

Spec == Init /\ [][Next]_vars

\* thread t is inside an entry point: it holds the mutex, and the step at its
\* position can be taken (no sink's Log blocks for ever)
Busy(t) == ~aborted /\ pc[t] \notin {"idle", "aborted"}

\* the steps of the entry point thread t is in
Running(t) ==
    \/ FanOut(t) \/ Return(t) \/ FatalMessage(t) \/ FatalBugReport(t) \/ Abort(t)
    \/ TraceEarlyOut(t) \/ TraceLabel(t) \/ TraceBody(t)
    \/ \E fn \in Functions : TraceFiltered(t, fn) \/ TracePassed(t, fn)

\* the same program with every thread scheduled again and again: a call that
\* has started runs on. The second conjunct is WF_vars(Running(t)) written out,
\* with Busy(t) for ENABLED <<Running(t)>>_vars
FairSpec ==
    /\ Spec
    /\ \A t \in Threads :
          /\ WF_vars(Abort(t))
          /\ ([]<>(~Busy(t)) \/ []<><<Running(t)>>_vars)

---------------------------------------------------------------------------
\* readers of the history of sink Log calls

\* the Log calls one dispatch call has made, in order
OfCall(c) ==
    LET mine(r) == r.call = c
    IN SelectSeq(recv, mine)

\* the formatted (va_list) Log calls one dispatch call has made, in order
VaOfCall(c) ==
    LET mine(r) == r.call = c /\ r.overload = "va"
    IN SelectSeq(recv, mine)

\* the Log calls one sink has received, in order
OnSink(i) ==
    LET mine(r) == r.sink = i
    IN SelectSeq(recv, mine)

\* the texts a sink has formatted, in order
Formatted(i) ==
    LET isFormat(e) == e.op = "vstrprintf"
        evs == SelectSeq(io[i], isFormat)
    IN [k \in 1..Len(evs) |-> evs[k].text]

\* what LogFatal owes its sinks
FatalCalls(t) ==
    [k \in 1..(2 * Len(g_log_sinks)) |->
        IF k % 2 = 1
        THEN [thread |-> t, entry |-> "LogFatal", call |-> frame[t].call,
              sink |-> (k + 1) \div 2, severity |-> FATAL, overload |-> "va",
              format |-> FatalPrefix \o frame[t].format,
              va |-> [args |-> frame[t].args, pos |-> 1]]
        ELSE [thread |-> t, entry |-> "LogFatal", call |-> frame[t].call,
              sink |-> k \div 2, severity |-> FATAL, overload |-> "string",
              format |-> BugReportLine, va |-> NoVa]]

\* C2 (safety half): when LogFatal aborts, every registered sink has been given
\* exactly its two Fatal messages, "INTERNAL ERROR: " + format with the
\* arguments and then the bug-report line, sink after sink
C2_AbortAfterBothMessages ==
    \A t \in Threads : pc[t] = "aborted" => OfCall(frame[t].call) = FatalCalls(t)

\* C2: LogFatal, whatever the number of registered sinks, gives every sink
\* exactly two Fatal messages (the prefixed message, then the bug-report line),
\* aborts only after all of them have both, and always reaches abort
C2_FatalLogsTwiceThenAborts ==
    /\ [] C2_AbortAfterBothMessages
    /\ \A t \in Threads : (pc[t] \in {"fatal", "fatal2"}) ~> aborted

C2_Witness ==
    /\ aborted
    /\ Len(g_log_sinks) = 2
    /\ \E t \in Threads : pc[t] = "aborted" /\ Len(OfCall(frame[t].call)) = 4

\* C3: a call holds the mutex from its entry to its return, so on every sink
\* the Log calls of one dispatch call are consecutive, the two parts of a Fatal
\* message are adjacent, and so are a trace's label and body
C3_CallsDoNotInterleave ==
    /\ \A t \in Threads : pc[t] # "idle" => g_log_mutex = t
    /\ \A i \in 1..Len(g_log_sinks) :
          LET q == OnSink(i)
          IN /\ \A a, b, c \in 1..Len(q) :
                    (a < b /\ b < c /\ q[a].call = q[c].call) => q[b].call = q[a].call
             /\ \A k \in 1..Len(q) :
                    (q[k].entry = "LogFatal" /\ q[k].overload = "string")
                        => k > 1 /\ q[k - 1].call = q[k].call /\ q[k - 1].overload = "va"
             /\ \A k \in 1..Len(q) :
                    (q[k].entry = "LogDebugTrace" /\ q[k].overload = "va")
                        => k > 1 /\ q[k - 1].call = q[k].call
                              /\ q[k - 1].overload = "string"

C3_Witness ==
    \E i \in 1..Len(g_log_sinks) :
        \E a, b \in 1..Len(OnSink(i)) :
            /\ OnSink(i)[a].thread # OnSink(i)[b].thread
            /\ OnSink(i)[a].entry = "LogDebugTrace"
            /\ OnSink(i)[b].entry = "LogFatal" /\ OnSink(i)[b].overload = "string"

\* C8: a call hands its formatted message to the sinks one after the other in
\* the order of g_log_sinks, once each, every time with the same severity, the
\* same format and an argument list read from its start; and what a sink
\* formats is that format with those arguments, whichever sinks came before
C8_EverySinkOnceInOrder ==
    /\ \A c \in 1..ncalls :
          LET q == VaOfCall(c)
          IN \A k \in 1..Len(q) :
                /\ q[k].sink = k
                /\ q[k].severity = q[1].severity
                /\ q[k].format = q[1].format
                /\ q[k].va = [args |-> q[1].va.args, pos |-> 1]
    /\ \A t \in Threads : pc[t] \in {"loop", "fatal", "label"} =>
          LET q == VaOfCall(frame[t].call)
          IN /\ Len(q) = frame[t].idx - 1
             /\ \A k \in 1..Len(q) :
                   /\ q[k].severity = frame[t].severity
                   /\ q[k].format = frame[t].sformat
                   /\ q[k].va.args = frame[t].args
    /\ \A i \in 1..Len(g_log_sinks) :
          LET emitted(r) == r.sink = i /\ r.overload = "va"
                               /\ r.severity <= g_log_sinks[i].m_min_severity
              q == SelectSeq(recv, emitted)
          IN Formatted(i) =
                [k \in 1..Len(q) |->
                    vsnprintf(q[k].format, 1, [args |-> q[k].va.args, pos |-> 1], <<>>).text]

C8_Witness ==
    \E t \in Threads :
        /\ pc[t] = "loop"
        /\ Len(g_log_sinks) = 2
        /\ frame[t].idx = 3
        /\ "%d" \in {frame[t].sformat[k] : k \in 1..Len(frame[t].sformat)}
        /\ Formatted(1) # <<>> /\ Formatted(2) # <<>>

---------------------------------------------------------------------------
\* LogDebugTrace and the trace filters

\* class and name of the function thread t's LogDebugTrace was called from
TraceParsed(t) ==
    IF pc[t] = "trace"
    THEN ParseFunction(frame[t].label)
    ELSE ParseFunction(CHOOSE fn \in Functions :
                          FinalName(ParseFunction(fn)) = frame[t].label)

\* the Log calls a trace owes its sinks, up to where its loop is
TraceCalls(t) ==
    LET n == 2 * (frame[t].idx - 1) + (IF pc[t] = "body" THEN 1 ELSE 0)
    IN [k \in 1..n |->
           IF k % 2 = 1
           THEN [thread |-> t, entry |-> "LogDebugTrace", call |-> frame[t].call,
                 sink |-> (k + 1) \div 2, severity |-> DEBUG, overload |-> "string",
                 format |-> <<"[">> \o frame[t].label \o <<"]", SP>>
                               \o GetIndentString(g_log_sinks[(k + 1) \div 2],
                                                  g_logIndentLevel[t]),
                 va |-> NoVa]
           ELSE [thread |-> t, entry |-> "LogDebugTrace", call |-> frame[t].call,
                 sink |-> k \div 2, severity |-> DEBUG, overload |-> "va",
                 format |-> frame[t].format,
                 va |-> [args |-> frame[t].args, pos |-> 1]]]

\* thread t leaves the filter test of LogDebugTrace in this step
TraceDecided(t) == pc[t] = "trace" /\ pc'[t] # "trace"

\* the step gives no sink anything
NothingLogged == recv' = recv /\ io' = io /\ g_log_sinks' = g_log_sinks

\* C11 (state half): a trace from a member function that is in its loop has a
\* class in g_trace_filters, and has given the sinks so far the label line and
\* then the message, both at Debug
C11_EmittedTraceIsFiltered ==
    \A t \in Threads :
        (pc[t] \in {"label", "body"} /\ TraceParsed(t).cls # <<>>) =>
            /\ has_debug_sinks
            /\ TraceParsed(t).cls \in g_trace_filters
            /\ OfCall(frame[t].call) = TraceCalls(t)

\* C11 (step half): with a Debug sink registered, a trace from a member
\* function of class C goes on to its loop if C is in g_trace_filters and
\* returns with nothing given to any sink if it is not
C11_ClassDecides ==
    \A t \in Threads :
        (TraceDecided(t) /\ has_debug_sinks /\ TraceParsed(t).cls # <<>>) =>
            IF TraceParsed(t).cls \in g_trace_filters
            THEN pc'[t] = "label" /\ NothingLogged
            ELSE pc'[t] = "idle" /\ NothingLogged

\* C11: with a sink at Debug, a LogDebugTrace from a member function of class C
\* is emitted (label line, then message, both at Debug) if C is in the trace
\* filter set and is suppressed on every sink if it is not
C11_TraceFilteredByClass ==
    /\ [] C11_EmittedTraceIsFiltered
    /\ [][C11_ClassDecides]_vars

C11_Witness ==
    \E t \in Threads :
        /\ pc[t] = "label"
        /\ frame[t].idx > Len(g_log_sinks)
        /\ TraceParsed(t).cls = TraceR
        /\ Len(OfCall(frame[t].call)) = 2 * Len(g_log_sinks)
        /\ \E i \in 1..Len(g_log_sinks) :
              /\ GetSeverity(g_log_sinks[i]) = DEBUG
              /\ io[i] # <<>>

\* C12: with "" in g_trace_filters (stored for --trace "::") and a sink at
\* Debug, a LogDebugTrace from a free function goes on to its loop and is
\* emitted
C12_EmptyFilterEmitsFreeFunctions ==
    [][\A t \in Threads :
          (/\ TraceDecided(t)
           /\ has_debug_sinks
           /\ TraceParsed(t).cls = <<>>
           /\ TraceArgument(<<":", ":">>) \in g_trace_filters)
              => pc'[t] = "label"]_vars

\* C13: with no sink at Debug, a LogDebugTrace call is on its way out without
\* the global mutex, so it waits for no other thread's dispatch and delays none
C13_EarlyOutWithoutMutex ==
    \A t \in Threads :
        (pc[t] = "trace" /\ ~has_debug_sinks) => g_log_mutex # t

---------------------------------------------------------------------------
\* flushing

\* where in a sink's trace its writes are, in order
Writes(i) ==
    LET isWrite(k) == io[i][k].op = "fputs"
    IN SelectSeq([k \in 1..Len(io[i]) |-> k], isWrite)

\* the Log calls a sink did not skip, in order
Emitted(i) ==
    LET passes(r) == r.sink = i /\ r.severity <= g_log_sinks[i].m_min_severity
    IN SelectSeq(recv, passes)

\* the sink's trace has these events from position k on
HasAt(i, k, evs) ==
    /\ k >= 1
    /\ k + Len(evs) - 1 <= Len(io[i])
    /\ SubSeq(io[i], k, k + Len(evs) - 1) = evs

\* something written to this stream of the sink has not been flushed since
Unflushed(i, stream) ==
    \E k \in 1..Len(io[i]) :
        /\ io[i][k].op = "fputs" /\ io[i][k].stream = stream
        /\ \A m \in (k + 1)..Len(io[i]) :
              ~(io[i][m].op = "fflush" /\ io[i][m].stream = stream)

\* C14: a message a sink emits at Warning, Error or Fatal is followed, before
\* Log returns, by a flush of the medium (the console sink flushes stdout and
\* stderr, and has flushed both before the write as well); so when LogFatal
\* aborts nothing written to any sink is left unflushed
C14_UrgentMessagesAreFlushed ==
    /\ \A i \in 1..Len(g_log_sinks) :
          /\ Len(Writes(i)) = Len(Emitted(i))
          /\ \A k \in 1..Len(Writes(i)) :
                Emitted(i)[k].severity <= WARNING =>
                    LET w == Writes(i)[k]
                        before == IF Emitted(i)[k].overload = "va" THEN w - 3 ELSE w - 2
                    IN IF g_log_sinks[i].kind = "FILELogSink"
                       THEN HasAt(i, w + 1, <<Ev("fflush", "m_file", <<>>)>>)
                       ELSE /\ HasAt(i, w + 1, <<Ev("fflush", "stdout", <<>>),
                                                  Ev("fflush", "stderr", <<>>)>>)
                            /\ HasAt(i, before, <<Ev("fflush", "stdout", <<>>),
                                                   Ev("fflush", "stderr", <<>>)>>)
    /\ aborted =>
          \A i \in 1..Len(g_log_sinks) :
              \A stream \in {"stdout", "stderr", "m_file"} : ~Unflushed(i, stream)

C14_Witness ==
    /\ aborted
    /\ \E i \in 1..Len(g_log_sinks) :
          /\ g_log_sinks[i].kind = "FILELogSink"
          /\ \E k \in 1..(Len(io[i]) - 1) :
                io[i][k].op = "fputs" /\ io[i][k + 1].op # "fflush"
    /\ \E i \in 1..Len(g_log_sinks) :
          /\ g_log_sinks[i].kind # "FILELogSink"
          /\ \E k \in 1..Len(io[i]) :
                io[i][k].op = "fputs" /\ io[i][k].stream = "stderr"

---------------------------------------------------------------------------
\* the newline flag and the bytes written

\* C15: whatever Log calls a sink has had (skipped, empty, wrapped, coloured),
\* m_lastMessageWasNewline is true exactly when the sink has written no byte
\* yet or the last byte it wrote is a newline
C15_FlagIffLastByteNewline ==
    \A i \in 1..Len(g_log_sinks) :
        g_log_sinks[i].m_lastMessageWasNewline
            <=> (Written(io[i]) = <<>> \/ EndsWithNewline(Written(io[i])))

C15_Witness ==
    /\ lastLog.n = 1
    /\ g_log_sinks[1].kind = "ColoredSTDLogSink"
    /\ Len(Writes(1)) = 2
    /\ ~EndsWithNewline(io[1][Writes(1)[1]].text)
    /\ io[1][Writes(1)[2]].text # <<>>
    /\ g_log_sinks[1].m_lastMessageWasNewline

---------------------------------------------------------------------------
\* line lengths over several calls

\* s from character i on without the colour markers (ESC up to the next "m")
RECURSIVE VisibleFrom(_, _, _)
VisibleFrom(s, i, inMarker) ==
    IF i > Len(s) THEN <<>>
    ELSE IF inMarker THEN VisibleFrom(s, i + 1, s[i] # "m")
    ELSE IF s[i] = ESC THEN VisibleFrom(s, i + 1, TRUE)
    ELSE <<s[i]>> \o VisibleFrom(s, i + 1, FALSE)

Visible(s) == VisibleFrom(s, 1, FALSE)

\* C16: whatever Log calls a sink has had, no line of its output, colour
\* markers not counted, is longer than its width, a line one call left open
\* and a later call went on with included. (Stated for widths the indent in
\* force leaves room in, where no single call writes an overlong line.)
C16_NoLineLongerThanWidth ==
    \A i \in 1..Len(g_log_sinks) :
        (\A t \in Threads :
            UIntVal(IndentLength(g_log_sinks[i], g_logIndentLevel[t]))
                < g_log_sinks[i].m_termWidth)
        => LET ls == Lines(Visible(Written(io[i])))
           IN \A k \in 1..Len(ls) : LineLength(ls[k]) <= g_log_sinks[i].m_termWidth

---------------------------------------------------------------------------
\* ColourSpec: one PreprocessLine call of a ColoredSTDLogSink on a line made
\* of up to MaxWords words, keywords with their colon among them.

Words ==
    {<<"a">>, <<SP>>,
     Append(red_strings[1], ":"), Append(red_strings[2], ":"),
     Append(red_strings[4], ":"), Append(yellow_strings[2], ":")}

RECURSIVE Sentences(_)
Sentences(n) ==
    IF n = 0 THEN {<<>>}
    ELSE Sentences(n - 1) \cup {s \o w : s \in Sentences(n - 1), w \in Words}

ColourInit ==
    /\ g_log_sinks = <<>>
    /\ io = <<>>
    /\ g_logToStdoutAlways = FALSE
    /\ g_trace_filters = {}
    /\ g_log_mutex = NoThread
    /\ g_logIndentLevel = [t \in Threads |-> UInt(0)]
    /\ alive = [t \in Threads |-> 0]
    /\ foreign = FALSE
    /\ pc = [t \in Threads |-> "idle"]
    /\ frame = [t \in Threads |-> NoFrame]
    /\ aborted = FALSE
    /\ ncalls = 0
    /\ recv = <<>>
    /\ lastLog = NoLog
    /\ wrapIn \in [line : Sentences(MaxWords)]
    /\ wrapOut = NoWrap

CallPreprocessLine ==
    /\ ~wrapOut.done
    /\ wrapOut' = [done |-> TRUE,
                   ret |-> PreprocessLine("ColoredSTDLogSink", wrapIn.line)]
    /\ UNCHANGED <<g_log_sinks, io, g_logToStdoutAlways, g_trace_filters,
                   g_log_mutex, g_logIndentLevel, alive, foreign, pc, frame,
                   aborted, ncalls, recv, lastLog, wrapIn>>

ColourNext == CallPreprocessLine

ColourSpec == ColourInit /\ [][ColourNext]_vars

\* the keywords in the order PreprocessLine goes through them, colon added,
\* and the colour of each
Keywords ==
    [k \in 1..(Len(red_strings) + Len(yellow_strings)) |->
        IF k <= Len(red_strings)
        THEN [search |-> Append(red_strings[k], ":"), colour |-> red]
        ELSE [search |-> Append(yellow_strings[k - Len(red_strings)], ":"),
              colour |-> yellow]]

\* the line with the first keyword that occurs in it coloured, and no other
FirstKeywordOnly(line) ==
    LET hits == {k \in 1..Len(Keywords) : Find(line, Keywords[k].search) # 0}
    IN IF hits = {} THEN line
       ELSE LET k == CHOOSE h \in hits : \A g \in hits : h <= g
                end == Find(line, Keywords[k].search) + Len(Keywords[k].search) - 1
            IN Keywords[k].colour \o SubSeq(line, 1, end) \o clear
                   \o SubstrFrom(line, end + 1)

\* C17: PreprocessLine applies only the first keyword of its list whose
\* "keyword:" is in the line: one colour marker at the start of the line, one
\* reset marker right after the first occurrence of that "keyword:", the rest
\* unchanged; a line with no "keyword:" comes back unchanged
C17_OnlyFirstKeywordApplied ==
    wrapOut.done => wrapOut.ret = FirstKeywordOnly(wrapIn.line)

---------------------------------------------------------------------------
\* WrapString: termination and progress

\* the same call, made sooner or later: WF_vars(CallWrapString) written out,
\* with ~wrapOut.done for ENABLED <<CallWrapString>>_vars
WrapFairSpec ==
    /\ WrapSpec
    /\ ([]<>(wrapOut.done) \/ []<><<CallWrapString>>_vars)

\* s without its spaces
RECURSIVE Unindented(_)
Unindented(s) ==
    IF s = <<>> THEN <<>>
    ELSE (IF Head(s) = SP THEN <<>> ELSE <<Head(s)>>) \o Unindented(Tail(s))

\* out from i on is in from j on with nothing but newlines added
RECURSIVE OnlyBreaksAdded(_, _, _, _)
OnlyBreaksAdded(out, i, in, j) ==
    IF i > Len(out) THEN j > Len(in)
    ELSE IF j <= Len(in) /\ out[i] = in[j] THEN OnlyBreaksAdded(out, i + 1, in, j + 1)
    ELSE out[i] = NL /\ OnlyBreaksAdded(out, i + 1, in, j)

\* the indent leaves no room on a line
NoRoom == WrapWidth <= Len(WrapIndent)

\* input character k on a line of its own, behind the indent if indented
OwnLine(k, indented) ==
    (IF indented THEN WrapIndent ELSE <<>>)
        \o (IF wrapIn.str[k] = NL THEN <<NL>> ELSE <<wrapIn.str[k], NL>>)

\* every input character is in the output once, in order, between indents
\* and added newlines only
C18_InputKept ==
    wrapOut.done => OnlyBreaksAdded(Unindented(wrapOut.ret), 1, wrapIn.str, 1)

\* C18 as stated: WrapString returns for every input, depth and width; where
\* the width is 0 or no more than the indent, every line it writes is the
\* indent and one input character; every input character is in the output
\* exactly once, in order
C18_ProgressWithIndentOnEveryLine ==
    /\ <>wrapOut.done
    /\ [] C18_InputKept
    /\ [](wrapOut.done /\ NoRoom =>
            /\ Len(Lines(wrapOut.ret)) = Len(wrapIn.str)
            /\ \A k \in 1..Len(wrapIn.str) : Lines(wrapOut.ret)[k] = OwnLine(k, TRUE))

\* C18, amended: the same, but the first line has the indent only if the
\* sink's previous output ended a line
C18_ProgressOneCharacterPerLine ==
    /\ <>wrapOut.done
    /\ [] C18_InputKept
    /\ [](wrapOut.done /\ NoRoom =>
            /\ Len(Lines(wrapOut.ret)) = Len(wrapIn.str)
            /\ \A k \in 1..Len(wrapIn.str) :
                  Lines(wrapOut.ret)[k] =
                      OwnLine(k, k > 1 \/ wrapIn.sink.m_lastMessageWasNewline))

C18_Witness ==
    /\ wrapOut.done
    /\ WrapWidth > 0
    /\ Len(WrapIndent) > WrapWidth
    /\ ~wrapIn.sink.m_lastMessageWasNewline
    /\ Len(wrapIn.str) >= 3
    /\ wrapIn.str[1] = "a" /\ wrapIn.str[2] = NL
    /\ Len(Lines(wrapOut.ret)) = Len(wrapIn.str)

---------------------------------------------------------------------------
\* ArgsSpec: the dispatch specification with ParseLoggerArguments called from
\* any thread at any time, as nothing in it waits for g_log_mutex.

\* another thread is inside a dispatch entry point
Racing(t) == \E o \in Threads \ {t} : pc[o] \notin {"idle", "aborted"}

\* ParseLoggerArguments on thread t for the argument s with its value arg.
\* -q, --verbose and --debug only change the caller's console_verbosity, which
\* is an input here. A change of g_log_sinks or g_trace_filters while another
\* thread reads them is a data race: it takes effect, or the process dies.
ParseLoggerArguments(t, s, arg, console_verbosity) ==
    /\ ~aborted
    /\ pc[t] = "idle"
    /\ ncalls < MaxCalls
    /\ ncalls' = ncalls + 1
    /\ \/ /\ s \in {"-l", "--logfile", "-L", "--logfile-lines"}
          /\ g_log_sinks' = Append(g_log_sinks, FILELogSink(console_verbosity))
          /\ io' = Append(io, <<>>)
          /\ UNCHANGED <<g_trace_filters, g_logToStdoutAlways, aborted>>
       \/ /\ s = "--trace"
          /\ g_trace_filters' = g_trace_filters \cup {TraceArgument(arg)}
          /\ UNCHANGED <<g_log_sinks, io, g_logToStdoutAlways, aborted>>
       \/ /\ s = "--stdout-only"
          /\ g_logToStdoutAlways' = TRUE
          /\ UNCHANGED <<g_log_sinks, io, g_trace_filters, aborted>>
       \/ /\ s \in {"-l", "--logfile", "-L", "--logfile-lines", "--trace"}
          /\ Racing(t)
          /\ aborted' = TRUE
          /\ UNCHANGED <<g_log_sinks, io, g_trace_filters, g_logToStdoutAlways>>
    /\ UNCHANGED <<g_log_mutex, g_logIndentLevel, alive, foreign, pc, frame,
                   recv, lastLog, wrapIn, wrapOut>>

\* the arguments tried
Arguments == {<<"-l", <<"f">> >>, <<"--trace", <<":", ":">> >>, <<"--stdout-only", <<>> >>}

ArgsNext ==
    \/ Next
    \/ \E t \in Threads, a \in Arguments :
          ParseLoggerArguments(t, a[1], a[2], NOTICE)

ArgsSpec == Init /\ [][ArgsNext]_vars

\* C19: g_log_sinks and g_trace_filters are read and changed under
\* g_log_mutex only, so a sink is never registered and a trace filter never
\* added while another thread is inside a dispatch call
C19_SharedStateChangesUnderMutex ==
    [][(Len(g_log_sinks') # Len(g_log_sinks) \/ g_trace_filters' # g_trace_filters)
          => \A t \in Threads : pc[t] = "idle"]_vars

=============================================================================
